---------------------------- MODULE Spec2Model ----------------------------
(***************************************************************************)
(* Verification model of the two Lambda functions of the TEAM access      *)
(* workflow:                                                               *)
(*   teamCheckOverlappingSessions/src/index.py  (lambda_handler)           *)
(*   teamgetEntitlement/src/index.py            (handler and its helpers)  *)
(*                                                                         *)
(* Python values are modelled as follows.  None is the string NoneVal.     *)
(* A DynamoDB item is a record carrying the set `fields` of the attributes *)
(* it has, so that dict.get(k, default) is Get(item, k, default).  A       *)
(* numeric string is the sequence of its decimal digits ("012" is          *)
(* <<0, 1, 2>>), parsed by IntOf and printed by StrOf.                     *)
(***************************************************************************)
EXTENDS Integers, Sequences, FiniteSets, TLC

VARIABLES
    \* ---- teamCheckOverlappingSessions ----
    event,          \* the Step Functions event handed to lambda_handler
    requests,       \* the requests table, in the order a Scan reads it
    guardPc,        \* position of lambda_handler
    response,       \* what table.scan did: a response or a raised exception
    result,         \* the dict lambda_handler returned
    nScans,         \* number of table.scan calls issued
    \* ---- teamgetEntitlement ----
    ACCOUNT_ID,       \* os.environ["ACCOUNT_ID"]: the account TEAM is deployed in
    mgmt_account_id,  \* module global set at import (line 28)
    policy_table,     \* the eligibility policy table, in index order
    userId,           \* event["userId"]
    groupIds,         \* event["groupIds"]
    pc,               \* position of the module / of handler
    idx,              \* position of the loop of line 152 in [userId] + groupIds
    items,            \* line 159
    itemIdx,          \* position of the loop of line 163 in items
    accounts,         \* policy["accounts"] of the entry under construction
    ouIdx,            \* position of the loop of line 171 in item["ous"]
    ou,               \* id of the OU last handed to list_account_for_ou
    data,             \* line 172: what list_account_for_ou returned
    eligibility,      \* line 147
    maxDuration,      \* line 148
    resolved,         \* history: the item behind each entry of eligibility
    absorbed          \* history: some except clause has swallowed a ClientError

guardVars == <<event, requests, guardPc, response, result, nScans>>

aggVars == <<ACCOUNT_ID, mgmt_account_id, policy_table, userId, groupIds, pc, idx,
             items, itemIdx, accounts, ouIdx, ou, data, eligibility, maxDuration,
             resolved, absorbed>>

vars == <<guardVars, aggVars>>

NoneVal == "<None>"

\* Python truthiness of an event value: None and "" are falsy.
Falsy(v) == v \in {NoneVal, ""}

-----------------------------------------------------------------------------
(* Bounds *)
MaxRequests == 2     \* records in the requests table
ScanPageLimit == 1   \* records one Scan call reads (DynamoDB's 1 MB page)
MaxPolicies == 2     \* records in the eligibility policy table
MaxGroups == 1       \* length of event["groupIds"]

-----------------------------------------------------------------------------
(* teamCheckOverlappingSessions/src/index.py *)

Emails == {"a@x", "b@x"}
AccountIds == {"111", "222"}
RoleIds == {"ps-1", "ps-2"}
Statuses == {"in progress", "ended"}

\* The primary key of the k-th record read by a Scan.
RequestId(k) == CASE k = 1 -> "r1" [] k = 2 -> "r2" [] k = 3 -> "r3" [] OTHER -> "r4"

RequestPayloads == [email : Emails, accountId : AccountIds, roleId : RoleIds,
                    status : Statuses]

MkRequest(k, p) == [id |-> RequestId(k), email |-> p.email, accountId |-> p.accountId,
                    roleId |-> p.roleId, status |-> p.status]

\* Every table of at most MaxRequests records with distinct ids.
RequestTables ==
    UNION { { [k \in 1..n |-> MkRequest(k, f[k])] : f \in [1..n -> RequestPayloads] }
            : n \in 0..MaxRequests }

Events == [requests_table : {NoneVal, "Requests"},
           id : {"", "r1", "r2"},
           email : {NoneVal, "a@x"},
           accountId : {"", "111"},
           roleId : {NoneVal, "ps-1"}]

\* line 43 with role_id left out of the list
MissingParamsNoRole(ev) ==
    \/ Falsy(ev.requests_table) \/ Falsy(ev.id) \/ Falsy(ev.email)
    \/ Falsy(ev.accountId)

\* line 43: not all([table_name, current_request_id, email, account_id, role_id])
MissingParams(ev) ==
    \/ Falsy(ev.requests_table) \/ Falsy(ev.id) \/ Falsy(ev.email)
    \/ Falsy(ev.accountId) \/ Falsy(ev.roleId)

\* lines 58-64: the FilterExpression, evaluated on one record.
FilterExpression(r, ev) ==
    /\ r.status = "in progress"
    /\ r.email = ev.email
    /\ r.accountId = ev.accountId
    /\ r.roleId = ev.roleId
    /\ r.id # ev.id

\* The records a single Scan call reads before it returns: DynamoDB stops after
\* one page and hands back LastEvaluatedKey, which lines 57-78 never follow.
ScanPage(table) ==
    SubSeq(table, 1, IF Len(table) < ScanPageLimit THEN Len(table) ELSE ScanPageLimit)

\* lines 57-76: table.scan(...): the filter applied to the page read, projected on id.
Scan(table, ev) ==
    LET page == ScanPage(table)
        hit == SelectSeq(page, LAMBDA r : FilterExpression(r, ev))
    IN [k \in 1..Len(hit) |-> [id |-> hit[k].id]]

\* What the boto3 calls of lines 51-76 can do: return, raise botocore's ClientError
\* (the service answered with an error), or raise another exception
\* (EndpointConnectionError, ReadTimeoutError, NoCredentialsError: BotoCoreError,
\* which is no subclass of ClientError).
ScanFailures == {"ClientError", "BotoCoreError"}

NoResponse == [kind |-> "none"]
NoResult == [unset |-> TRUE]

\* The entitlement function, not loaded.
AggIdle ==
    /\ ACCOUNT_ID = NoneVal
    /\ mgmt_account_id = NoneVal
    /\ policy_table = <<>>
    /\ userId = ""
    /\ groupIds = <<>>
    /\ pc = "off"
    /\ idx = 0
    /\ items = <<>>
    /\ itemIdx = 0
    /\ accounts = <<>>
    /\ ouIdx = 0
    /\ ou = NoneVal
    /\ data = [kind |-> "unset"]
    /\ eligibility = <<>>
    /\ maxDuration = 0
    /\ resolved = <<>>
    /\ absorbed = FALSE

GuardInit ==
    /\ event \in Events
    /\ requests \in RequestTables
    /\ guardPc = "start"
    /\ response = NoResponse
    /\ result = NoResult
    /\ nScans = 0
    /\ AggIdle

\* lines 35-48
CheckParams ==
    /\ guardPc = "start"
    /\ IF MissingParams(event)
       THEN /\ result' = [hasOverlappingSessions |-> FALSE,
                          error |-> "Missing required parameters"]
            /\ guardPc' = "returned"
       ELSE /\ guardPc' = "try"
            /\ UNCHANGED result
    /\ UNCHANGED <<event, requests, response, nScans>>
    /\ UNCHANGED aggVars

\* lines 50-76: the call succeeds
ScanOk ==
    /\ guardPc = "try"
    /\ response' = [kind |-> "ok", Items |-> Scan(requests, event)]
    /\ nScans' = nScans + 1
    /\ guardPc' = "scanned"
    /\ UNCHANGED <<event, requests, result>>
    /\ UNCHANGED aggVars

\* lines 50-76: the call raises
ScanRaises ==
    /\ guardPc = "try"
    /\ \E e \in ScanFailures : response' = [kind |-> e]
    /\ nScans' = nScans + 1
    /\ guardPc' = "except"
    /\ UNCHANGED <<event, requests, result>>
    /\ UNCHANGED aggVars

\* lines 78-91
Decide ==
    /\ guardPc = "scanned"
    /\ LET found == response.Items
           overlapping_count == Len(found)
       IN result' = [hasOverlappingSessions |-> overlapping_count > 0,
                     overlappingCount |-> overlapping_count]
    /\ guardPc' = "returned"
    /\ UNCHANGED <<event, requests, response, nScans>>
    /\ UNCHANGED aggVars

\* lines 93-100: except ClientError
HandleClientError ==
    /\ guardPc = "except"
    /\ response.kind = "ClientError"
    /\ result' = [hasOverlappingSessions |-> FALSE,
                  error |-> "An error occurred when calling the Scan operation"]
    /\ guardPc' = "returned"
    /\ UNCHANGED <<event, requests, response, nScans>>
    /\ UNCHANGED aggVars

\* line 93: an exception that is no ClientError matches no except clause and
\* leaves lambda_handler.
Propagate ==
    /\ guardPc = "except"
    /\ response.kind # "ClientError"
    /\ guardPc' = "raised"
    /\ UNCHANGED <<event, requests, response, result, nScans>>
    /\ UNCHANGED aggVars

GuardNext ==
    \/ CheckParams
    \/ ScanOk
    \/ ScanRaises
    \/ Decide
    \/ HandleClientError
    \/ Propagate

GuardSpec == GuardInit /\ [][GuardNext]_vars

-----------------------------------------------------------------------------
(* teamgetEntitlement/src/index.py *)

\* dict.get(k, default) on a DynamoDB item.
Get(item, k, default) == IF k \in item.fields THEN item[k] ELSE default

\* int(s) of a string of decimal digits.
RECURSIVE IntOf(_)
IntOf(s) == IF s = <<>> THEN 0
            ELSE IntOf(SubSeq(s, 1, Len(s) - 1)) * 10 + s[Len(s)]

\* str(n) of a natural number.
RECURSIVE StrOf(_)
StrOf(n) == IF n < 10 THEN <<n>> ELSE StrOf(n \div 10) \o <<n % 10>>

\* The organization: its management account and, per OU, the pages
\* list_accounts_for_parent yields.
MasterAccountId == "mgmt"

OrgPages(ouId) ==
    CASE ouId = "ou-1" -> << << [Id |-> "mgmt", Name |-> "Management"] >>,
                             << [Id |-> "acc1", Name |-> "Dev"] >> >>
      [] ouId = "ou-2" -> << << [Id |-> "acc2", Name |-> "Prod"],
                                [Id |-> "acc3", Name |-> "Test"] >> >>
      [] OTHER -> << >>

\* A boto3 call of this function returns or raises botocore's ClientError, the
\* failure its except clauses (lines 24, 100, 125, 137) are written for.
Outcomes == {"ok", "ClientError"}

\* lines 19-25: the function returns None when describe_organization fails.
get_mgmt_account_id(outcome) ==
    IF outcome = "ok" THEN MasterAccountId ELSE NoneVal

\* line 83
deployed_in_mgmt == ACCOUNT_ID = mgmt_account_id

\* lines 94-98: whether the account is appended.
KeepAccount(acct) ==
    IF ~deployed_in_mgmt THEN acct.Id # mgmt_account_id ELSE TRUE

\* lines 93-98: one page
RECURSIVE PageAccounts(_)
PageAccounts(page) ==
    IF page = <<>> THEN <<>>
    ELSE (IF KeepAccount(Head(page))
          THEN << [name |-> Head(page).Name, id |-> Head(page).Id] >>
          ELSE <<>>) \o PageAccounts(Tail(page))

\* lines 92-98: all pages
RECURSIVE AllPages(_)
AllPages(pages) ==
    IF pages = <<>> THEN <<>>
    ELSE PageAccounts(Head(pages)) \o AllPages(Tail(pages))

\* lines 82-101: the list on success; on ClientError the except clause prints and
\* the function falls off its end, returning None.
list_account_for_ou(ouId, outcome) ==
    IF outcome = "ok"
    THEN [kind |-> "list", accounts |-> AllPages(OrgPages(ouId))]
    ELSE [kind |-> "None"]

\* lines 118-124: the byEntityId index holds the items that have an entityId.
QueryByEntityId(table, id) ==
    SelectSeq(table, LAMBDA r : "entityId" \in r.fields /\ r.entityId = id)

\* line 131: get_item(Key={"id": id}); the result is a sequence of 0 or 1 item.
GetItem(table, id) == SelectSeq(table, LAMBDA r : r.id = id)

\* line 135
AlreadyIn(policies, old_policy) ==
    \E k \in 1..Len(policies) : policies[k].id = old_policy.id

\* lines 114-140
get_entitlements(table, id, queryOutcome, getOutcome) ==
    LET queried == IF queryOutcome = "ok" THEN QueryByEntityId(table, id) ELSE <<>>
        got == IF getOutcome = "ok" THEN GetItem(table, id) ELSE <<>>
    IN IF got # <<>> /\ ~AlreadyIn(queried, got[1])
       THEN Append(queried, got[1])
       ELSE queried

\* lines 165-166 with the comparison turned around
NewMaxDurationReversed(item, maxDur) ==
    LET duration == Get(item, "duration", <<0>>)
    IN IF IntOf(duration) < maxDur THEN IntOf(duration) ELSE maxDur

\* lines 165-166
NewMaxDuration(item, maxDur) ==
    LET duration == Get(item, "duration", <<0>>)
    IN IF IntOf(duration) > maxDur THEN IntOf(duration) ELSE maxDur

\* line 173 appending only the accounts not yet listed
ExtendUnique(accts, more) ==
    accts \o SelectSeq(more, LAMBDA a : \A k \in 1..Len(accts) : accts[k].id # a.id)

\* line 173: policy["accounts"].extend(data)
Extend(accts, more) == accts \o more

\* lines 175-177
Entry(item, accts, maxDur) ==
    [accounts |-> accts,
     permissions |-> Get(item, "permissions", <<>>),
     approvalRequired |-> Get(item, "approvalRequired", TRUE),
     duration |-> Get(item, "duration", StrOf(maxDur))]

\* line 152: [userId] + groupIds
IdList == <<userId>> \o groupIds

(* The inputs *)

\* An item of the policy table; an attribute it lacks holds a fixed filler.
Item(id, fs, entityId, duration, accts, ous, permissions, approvalRequired) ==
    [id |-> id, fields |-> fs \cup {"id"},
     entityId |-> IF "entityId" \in fs THEN entityId ELSE NoneVal,
     duration |-> IF "duration" \in fs THEN duration ELSE <<>>,
     accounts |-> IF "accounts" \in fs THEN accts ELSE <<>>,
     ous |-> IF "ous" \in fs THEN ous ELSE <<>>,
     permissions |-> IF "permissions" \in fs THEN permissions ELSE <<>>,
     approvalRequired |-> IF "approvalRequired" \in fs THEN approvalRequired ELSE FALSE]

Acc1 == [name |-> "Dev", id |-> "acc1"]
Acc2 == [name |-> "Prod", id |-> "acc2"]
Acc3 == [name |-> "Test", id |-> "acc3"]
Acc9 == [name |-> "Sandbox", id |-> "acc9"]
Ps1 == [name |-> "ReadOnly", id |-> "ps-1"]

\* What an item says besides whom it is attached to: nothing, or accounts (one of
\* them a member of ou-1 too), two OUs, permissions and approvalRequired.
Shapes ==
    { [fs |-> {}, accounts |-> <<>>, ous |-> <<>>, permissions |-> <<>>,
       approvalRequired |-> FALSE],
      [fs |-> {"accounts", "ous", "permissions", "approvalRequired"},
       accounts |-> <<Acc1, Acc9>>, ous |-> <<[id |-> "ou-2"], [id |-> "ou-1"]>>,
       permissions |-> <<Ps1>>, approvalRequired |-> FALSE] }

Durations == { [fs |-> {}, duration |-> <<>>],
               [fs |-> {"duration"}, duration |-> <<5>>],
               [fs |-> {"duration"}, duration |-> <<0, 1, 2>>] }

PolicyId(k) == CASE k = 1 -> "p1" [] k = 2 -> "p2" [] k = 3 -> "p3" [] OTHER -> "p4"

\* Items of the current schema: a generated id, attached to u1 or g1 by entityId.
MergeItems(k) ==
    { Item(PolicyId(k), {"entityId"} \cup s.fs \cup d.fs, e, d.duration, s.accounts,
           s.ous, s.permissions, s.approvalRequired)
      : e \in {"u1", "g1"}, s \in Shapes, d \in Durations }

\* Items of either schema: the id is generated or is an entity's id, the
\* entityId is absent or names an entity.
EntitlementItems ==
    { Item(id, e.fs \cup s.fs \cup {"duration"}, e.entityId, <<5>>, s.accounts, s.ous,
           s.permissions, s.approvalRequired)
      : id \in {"u1", "g1", "p1"},
        e \in { [fs |-> {}, entityId |-> NoneVal] }
              \cup { [fs |-> {"entityId"}, entityId |-> x] : x \in {"u1", "g1", "g9"} },
        s \in Shapes }

DistinctIds(table) ==
    \A j, k \in 1..Len(table) : j # k => table[j].id # table[k].id

RECURSIVE MergeTablesOfLen(_)
MergeTablesOfLen(n) ==
    IF n = 0 THEN { <<>> }
    ELSE { Append(t, r) : t \in MergeTablesOfLen(n - 1), r \in MergeItems(n) }

MergeTables == UNION { MergeTablesOfLen(n) : n \in 0..MaxPolicies }

EntitlementTables ==
    UNION { { t \in [1..n -> EntitlementItems] : DistinctIds(t) }
            : n \in 0..MaxPolicies }

\* event["groupIds"]: group ids, some possibly empty, no group twice.
GroupIdLists ==
    UNION { { g \in [1..n -> {"g1", ""}] :
                \A j, k \in 1..n : (j # k /\ g[j] # "") => g[j] # g[k] }
            : n \in 0..MaxGroups }

GuardIdle ==
    /\ event = [requests_table |-> NoneVal, id |-> "", email |-> NoneVal,
                accountId |-> "", roleId |-> NoneVal]
    /\ requests = <<>>
    /\ guardPc = "off"
    /\ response = NoResponse
    /\ result = NoResult
    /\ nScans = 0

AggInitWith(tables) ==
    /\ GuardIdle
    /\ ACCOUNT_ID \in {MasterAccountId, "deploy"}
    /\ mgmt_account_id = NoneVal
    /\ policy_table \in tables
    /\ userId = "u1"
    /\ groupIds \in GroupIdLists
    /\ pc = "import"
    /\ idx = 0
    /\ items = <<>>
    /\ itemIdx = 0
    /\ accounts = <<>>
    /\ ouIdx = 0
    /\ ou = NoneVal
    /\ data = [kind |-> "unset"]
    /\ eligibility = <<>>
    /\ maxDuration = 0
    /\ resolved = <<>>
    /\ absorbed = FALSE

EntitlementInit == AggInitWith(EntitlementTables)

MergeInit == AggInitWith(MergeTables)

(* The steps *)

\* line 28: mgmt_account_id = get_mgmt_account_id(), when the module is imported
ImportModule ==
    /\ pc = "import"
    /\ \E outcome \in Outcomes : mgmt_account_id' = get_mgmt_account_id(outcome)
    /\ pc' = "idle"
    /\ UNCHANGED <<ACCOUNT_ID, policy_table, userId, groupIds, idx, items, itemIdx,
                   accounts, ouIdx, ou, data, eligibility, maxDuration, resolved,
                   absorbed>>
    /\ UNCHANGED guardVars

\* lines 143-152
HandlerStart ==
    /\ pc = "idle"
    /\ eligibility' = <<>>
    /\ maxDuration' = 0
    /\ idx' = 1
    /\ pc' = "ids"
    /\ UNCHANGED <<ACCOUNT_ID, mgmt_account_id, policy_table, userId, groupIds, items,
                   itemIdx, accounts, ouIdx, ou, data, resolved, absorbed>>
    /\ UNCHANGED guardVars

\* lines 152-154: if not id: continue
SkipEmptyId ==
    /\ pc = "ids"
    /\ idx <= Len(IdList)
    /\ IdList[idx] = ""
    /\ idx' = idx + 1
    /\ UNCHANGED <<ACCOUNT_ID, mgmt_account_id, policy_table, userId, groupIds, pc,
                   items, itemIdx, accounts, ouIdx, ou, data, eligibility, maxDuration,
                   resolved, absorbed>>
    /\ UNCHANGED guardVars

\* lines 155-161
GetEntitlements ==
    /\ pc = "ids"
    /\ idx <= Len(IdList)
    /\ IdList[idx] # ""
    /\ \E queryOutcome \in Outcomes, getOutcome \in Outcomes :
          /\ items' = get_entitlements(policy_table, IdList[idx], queryOutcome,
                                       getOutcome)
          /\ absorbed' = (absorbed \/ queryOutcome # "ok" \/ getOutcome # "ok")
    /\ IF items' = <<>>
       THEN /\ idx' = idx + 1
            /\ UNCHANGED <<pc, itemIdx>>
       ELSE /\ itemIdx' = 1
            /\ pc' = "item"
            /\ UNCHANGED idx
    /\ UNCHANGED <<ACCOUNT_ID, mgmt_account_id, policy_table, userId, groupIds,
                   accounts, ouIdx, ou, data, eligibility, maxDuration, resolved>>
    /\ UNCHANGED guardVars

\* lines 163-169
BeginItem ==
    /\ pc = "item"
    /\ maxDuration' = NewMaxDuration(items[itemIdx], maxDuration)
    /\ accounts' = Get(items[itemIdx], "accounts", <<>>)
    /\ ouIdx' = 1
    /\ pc' = "ous"
    /\ UNCHANGED <<ACCOUNT_ID, mgmt_account_id, policy_table, userId, groupIds, idx,
                   items, itemIdx, ou, data, eligibility, resolved, absorbed>>
    /\ UNCHANGED guardVars

\* lines 171-173: extend(None) raises TypeError, which nothing in handler catches.
ExpandOu ==
    /\ pc = "ous"
    /\ ouIdx <= Len(Get(items[itemIdx], "ous", <<>>))
    /\ ou' = Get(items[itemIdx], "ous", <<>>)[ouIdx].id
    /\ \E outcome \in Outcomes :
          /\ data' = list_account_for_ou(ou', outcome)
          /\ absorbed' = (absorbed \/ outcome # "ok")
    /\ IF data'.kind = "list"
       THEN /\ accounts' = Extend(accounts, data'.accounts)
            /\ ouIdx' = ouIdx + 1
            /\ UNCHANGED pc
       ELSE /\ pc' = "raised"
            /\ UNCHANGED <<accounts, ouIdx>>
    /\ UNCHANGED <<ACCOUNT_ID, mgmt_account_id, policy_table, userId, groupIds, idx,
                   items, itemIdx, eligibility, maxDuration, resolved>>
    /\ UNCHANGED guardVars

\* lines 175-178, and the loops' next round
FinishItem ==
    /\ pc = "ous"
    /\ ouIdx > Len(Get(items[itemIdx], "ous", <<>>))
    /\ eligibility' = Append(eligibility, Entry(items[itemIdx], accounts, maxDuration))
    /\ resolved' = Append(resolved, items[itemIdx])
    /\ IF itemIdx < Len(items)
       THEN /\ itemIdx' = itemIdx + 1
            /\ pc' = "item"
            /\ UNCHANGED idx
       ELSE /\ idx' = idx + 1
            /\ pc' = "ids"
            /\ UNCHANGED itemIdx
    /\ UNCHANGED <<ACCOUNT_ID, mgmt_account_id, policy_table, userId, groupIds, items,
                   accounts, ouIdx, ou, data, maxDuration, absorbed>>
    /\ UNCHANGED guardVars

\* lines 180-183 and 31-79: publishPolicy logs what the request did and returns
\* its argument either way.
Publish ==
    /\ pc = "ids"
    /\ idx > Len(IdList)
    /\ pc' = "returned"
    /\ UNCHANGED <<ACCOUNT_ID, mgmt_account_id, policy_table, userId, groupIds, idx,
                   items, itemIdx, accounts, ouIdx, ou, data, eligibility, maxDuration,
                   resolved, absorbed>>
    /\ UNCHANGED guardVars

AggNext ==
    \/ ImportModule
    \/ HandlerStart
    \/ SkipEmptyId
    \/ GetEntitlements
    \/ BeginItem
    \/ ExpandOu
    \/ FinishItem
    \/ Publish

EntitlementSpec == EntitlementInit /\ [][AggNext]_vars

MergeSpec == MergeInit /\ [][AggNext]_vars

-----------------------------------------------------------------------------
(* Claims about lambda_handler, checked under GuardSpec *)

InputNames == {"requests_table", "id", "email", "accountId", "roleId"}

\* The positions, in the whole table, of the records the Guard is asked about.
OtherActive(table, ev) ==
    { k \in 1..Len(table) :
        /\ table[k].status = "in progress"
        /\ table[k].email = ev.email
        /\ table[k].accountId = ev.accountId
        /\ table[k].roleId = ev.roleId
        /\ table[k].id # ev.id }

\* C1: when all five inputs are non-empty and the query succeeds, the returned
\* hasOverlappingSessions says whether the WHOLE table holds another "in progress"
\* record of the same email, account and role, and overlappingCount is the number
\* of such records in the whole table.
C1_DecisionCoversWholeStore ==
    (guardPc = "returned" /\ response.kind = "ok") =>
        /\ result.hasOverlappingSessions = (OtherActive(requests, event) # {})
        /\ result.overlappingCount = Cardinality(OtherActive(requests, event))

\* C2: whatever makes the store query fail, lambda_handler returns normally with
\* hasOverlappingSessions = false and a non-empty error; the failure never leaves
\* the handler as an exception.
C2_FailOpenOnAnyQueryFailure ==
    (response.kind \in ScanFailures) =>
        /\ guardPc # "raised"
        /\ guardPc = "returned" =>
              /\ result.hasOverlappingSessions = FALSE
              /\ "error" \in DOMAIN result
              /\ result.error # ""

\* C3: with any of the five inputs absent or empty, lambda_handler never raises,
\* never queries the store, and what it returns is hasOverlappingSessions = false
\* with a non-empty error.
C3_MissingInputRefusedWithoutQuery ==
    (\E f \in InputNames : Falsy(event[f])) =>
        /\ guardPc \in {"start", "returned"}
        /\ nScans = 0
        /\ response = NoResponse
        /\ guardPc = "returned" =>
              /\ result.hasOverlappingSessions = FALSE
              /\ "error" \in DOMAIN result
              /\ result.error # ""

\* C3 witness: a call whose only missing input is roleId has returned.
C3_Witness ==
    /\ guardPc = "returned"
    /\ Falsy(event.roleId)
    /\ \A f \in InputNames \ {"roleId"} : ~Falsy(event[f])
    /\ result.hasOverlappingSessions = FALSE

\* C4: every dict lambda_handler returns carries the boolean decision and an
\* integer count (the error being optional).
C4_EveryReturnHasDecisionAndCount ==
    (guardPc = "returned") =>
        /\ {"hasOverlappingSessions", "overlappingCount"} \subseteq DOMAIN result
        /\ result.hasOverlappingSessions \in BOOLEAN
        /\ result.overlappingCount \in Nat

-----------------------------------------------------------------------------
(* Claims about handler, checked under EntitlementSpec and MergeSpec *)

\* The non-empty identities of the call.
IdentitySet == { IdList[k] : k \in 1..Len(IdList) } \ {""}

\* C5: a collaborator failure never makes handler fail: once an index query, a key
\* lookup or an OU listing has failed, handler still runs to its return.
C5_CollaboratorFailureNeverAborts ==
    absorbed => pc # "raised"

\* The record is found by the index query or by the key lookup of some identity.
Matches(r) ==
    \E id \in IdentitySet :
        \/ "entityId" \in r.fields /\ r.entityId = id
        \/ r.id = id

EntriesOf(r) == Cardinality({ k \in 1..Len(resolved) : resolved[k].id = r.id })

\* C6: when handler returns after lookups that all succeeded, each record of the
\* policy table that matched an identity of the call through the index or through
\* the key lookup has exactly one entry in the result, and no other record has any.
C6_OneEntryPerMatchedRecord ==
    (pc = "returned" /\ ~absorbed) =>
        \A k \in 1..Len(policy_table) :
            EntriesOf(policy_table[k]) = IF Matches(policy_table[k]) THEN 1 ELSE 0

\* The accounts list_accounts_for_parent yields for the OU, in its order.
RECURSIVE Flatten(_)
Flatten(pages) == IF pages = <<>> THEN <<>> ELSE Head(pages) \o Flatten(Tail(pages))

Members(ouId) ==
    LET all == Flatten(OrgPages(ouId))
    IN [k \in 1..Len(all) |-> [name |-> all[k].Name, id |-> all[k].Id]]

\* C7: what an OU expansion returns holds no management account when TEAM is
\* deployed outside the organization's management account, and holds every member
\* account of the OU when TEAM is deployed in it.
C7_ManagementAccountFiltered ==
    (data.kind = "list") =>
        /\ (ACCOUNT_ID # MasterAccountId) =>
              \A k \in 1..Len(data.accounts) : data.accounts[k].id # MasterAccountId
        /\ (ACCOUNT_ID = MasterAccountId) => data.accounts = Members(ou)

DurationValue(r) == IF "duration" \in r.fields THEN IntOf(r.duration) ELSE 0

RunningMax(k) ==
    LET seen == { DurationValue(resolved[j]) : j \in 1..k }
    IN CHOOSE m \in seen : \A n \in seen : n <= m

\* C8: the duration of each entry is the record's own duration when it has one,
\* and otherwise the decimal string of the largest duration among the records
\* processed up to and including it (a record without duration counting as 0).
C8_DurationDefaultsToRunningMax ==
    /\ Len(eligibility) = Len(resolved)
    /\ \A k \in 1..Len(eligibility) :
          eligibility[k].duration =
              IF "duration" \in resolved[k].fields
              THEN resolved[k].duration
              ELSE StrOf(RunningMax(k))

\* C8 witness: handler has returned two entries, the first from a record of
\* duration "012", the second from a record without duration and given "12".
C8_Witness ==
    /\ pc = "returned"
    /\ Len(eligibility) = 2
    /\ "duration" \in resolved[1].fields /\ resolved[1].duration = <<0, 1, 2>>
    /\ "duration" \notin resolved[2].fields
    /\ eligibility[2].duration = <<1, 2>>

RECURSIVE ConcatOver(_, _)
ConcatOver(F(_), ous) ==
    IF ous = <<>> THEN <<>> ELSE F(Head(ous).id) \o ConcatOver(F, Tail(ous))

\* The members of the OU that list_account_for_ou lets through.
Listed(ouId) ==
    SelectSeq(Members(ouId),
              LAMBDA a : ACCOUNT_ID = mgmt_account_id \/ a.id # mgmt_account_id)

Explicit(r) == IF "accounts" \in r.fields THEN r.accounts ELSE <<>>

OusOf(r) == IF "ous" \in r.fields THEN r.ous ELSE <<>>

CarriedThrough(r, e) ==
    /\ e.permissions = (IF "permissions" \in r.fields THEN r.permissions ELSE <<>>)
    /\ e.approvalRequired =
          (IF "approvalRequired" \in r.fields THEN r.approvalRequired ELSE TRUE)

\* C9 as stated: the accounts of each entry are the record's explicit accounts
\* followed by all member accounts of each of its OUs in the order of ous, with
\* no deduplication; permissions are the record's, approvalRequired is the
\* record's or true.
C9_AccountsAreExplicitThenAllMembers ==
    \A k \in 1..Len(eligibility) :
        /\ eligibility[k].accounts =
              Explicit(resolved[k]) \o ConcatOver(Members, OusOf(resolved[k]))
        /\ CarriedThrough(resolved[k], eligibility[k])

\* C9 as amended: the accounts of each entry are the record's explicit accounts
\* followed, for each of its OUs in the order of ous, by the OU's member accounts
\* without the one whose id is mgmt_account_id when ACCOUNT_ID differs from
\* mgmt_account_id, with no deduplication; permissions are the record's,
\* approvalRequired is the record's or true.
C9_AccountsAreExplicitThenListed ==
    /\ Len(eligibility) = Len(resolved)
    /\ \A k \in 1..Len(eligibility) :
          /\ eligibility[k].accounts =
                Explicit(resolved[k]) \o ConcatOver(Listed, OusOf(resolved[k]))
          /\ CarriedThrough(resolved[k], eligibility[k])

\* C9 witness: handler, deployed outside the management account, has returned an
\* entry whose record lists acc1 and acc9 and the OUs ou-2 (acc2, acc3) and ou-1
\* (management account, acc1): the entry holds acc1 twice and no management account.
C9_Witness ==
    /\ pc = "returned"
    /\ \E k \in 1..Len(eligibility) :
          /\ OusOf(resolved[k]) = <<[id |-> "ou-2"], [id |-> "ou-1"]>>
          /\ eligibility[k].accounts = <<Acc1, Acc9, Acc2, Acc3, Acc1>>
          /\ eligibility[k].permissions = <<Ps1>>
          /\ eligibility[k].approvalRequired = FALSE

\* C10: every entry comes from a record attached to an identity of the call: the
\* record's entityId is one of the identities, or the record has no entityId and
\* its id is one of them.
C10_EntriesBelongToIdentitySet ==
    \A k \in 1..Len(resolved) :
        IF "entityId" \in resolved[k].fields
        THEN resolved[k].entityId \in IdentitySet
        ELSE resolved[k].id \in IdentitySet

=============================================================================
